---- MODULE Spec2Model ----
(***************************************************************************)
(* Model of the bilingual construction-consulting site: the I18n module    *)
(* (translation store, DOM text binder, language switch), the fetch retry  *)
(* wrapper of the ErrorHandler and the App's page initialisation and       *)
(* project rendering.                                                      *)
(*                                                                         *)
(* JavaScript strings are sequences of one-character strings, so that the  *)
(* string operations of the code (split, replace, toUpperCase) are         *)
(* computed and not assumed.  A JavaScript value is a record               *)
(* [kind, s]: kind is the typeof-like tag and s the characters of a        *)
(* string value.                                                           *)
(***************************************************************************)
EXTENDS Integers, Sequences, FiniteSets, TLC

VARIABLES
  \* browser storage, kept across page loads
  stored,         \* localStorage['preferred-language']: "none" or a code
  \* I18n
  currentLang,    \* I18n.currentLang
  translations,   \* I18n.translations: per language [has, d]
  \* document
  bound,          \* the static data-i18n elements: id -> [text, content]
  htmlLang,       \* document.documentElement.lang
  ogLocale,       \* content of meta[property="og:locale"]
  hreflang,       \* href of the link[hreflang] tags: "markup" or "canonical"
  switcher,       \* the language switcher: [ready, active]
  ongoingGrid,    \* #ongoing-projects: [kind, cards]
  completedGrid,  \* #completed-projects: [kind, cards]
  detail,         \* #project-detail: [slug, open, scopeLabel, summary]
  hash,           \* window.location.hash without the '#'
  \* App
  pc,             \* where App.init stands
  page,           \* the page loaded (getCurrentPage)
  projects,       \* App.projects: [loaded, list]
  initialHash,    \* App.initialHash
  listening,      \* the languageChanged listener of bindGlobalEvents is bound
  \* ErrorHandler
  retryAttempts,  \* ErrorHandler.retryAttempts: retry key -> count (0: no entry)
  reqs,           \* the fetchWithRetry calls in progress: id -> [st, attempts, calls]
  \* history
  tCall,          \* last direct call of I18n.t: [called, key, result]
  setCall,        \* the last I18n.set call, if it was the last operation
  roundTrip,      \* progress of an en -> lo -> en switch: [phase, snap]
  lastFetch,      \* the fetchWithRetry call that settled, if that was the last operation
  loadResult,     \* per language: how loadTranslations ended in this page load
  cacheRead,      \* per language: the cache entry loadFromCache found
  loads,          \* number of page loads so far
  lastSet,        \* argument of the last I18n.set call of any page load
  tab,            \* the active tab of the projects page
  timer,          \* slug whose detail the deep-link timer will show, or "none"
  escapeArmed,    \* a keydown handler of showProjectDetail is registered
  lastOp,         \* the last operation on the projects page: [op, arg]
  gsap,           \* window.gsap is defined
  scrollTrigger,  \* window.ScrollTrigger: "present", "missing", or "failed" (its script fired an error)
  prefReduced,    \* the prefers-reduced-motion media query matches
  motionThrows,   \* registering the plugin throws
  motion,         \* the Motion object: [inited, gsapLoaded, scrollTriggerLoaded, reducedMotion, timeline, errors, toggles, targets, listeners, perElement]
  bodyClass,      \* classes of the body element
  triggers,       \* scroll triggers registered by Motion ("reveal") and by the detail view ("detail")
  eh,             \* ErrorHandler and its banner: [errors, banner, timer, shown, flag]
  featuredGrid,   \* .projects-grid of the home page: [kind, cards]
  pushed          \* the hashes handed to history.pushState by the last operation, in order

\* ------------------------------------------------------------------------
\* Characters and strings
\* ------------------------------------------------------------------------
LowerCase == <<"a","b","c","d","e","f","g","h","i","j","k","l","m","n","o","p","q","r","s","t","u","v","w","x","y","z">>
UpperCase == <<"A","B","C","D","E","F","G","H","I","J","K","L","M","N","O","P","Q","R","S","T","U","V","W","X","Y","Z">>
Digits == <<"0","1","2","3","4","5","6","7","8","9">>

Range(f) == {f[i] : i \in DOMAIN f}

\* String.prototype.toUpperCase on one character
ToUpperCase(c) ==
  IF \E i \in DOMAIN LowerCase : LowerCase[i] = c
  THEN UpperCase[CHOOSE i \in DOMAIN LowerCase : LowerCase[i] = c]
  ELSE c

\* the regular-expression class \w
IsWordChar(c) == c \in Range(LowerCase) \cup Range(UpperCase) \cup Range(Digits) \cup {"_"}

\* s.replace(/[_-]/g, ' ')
ReplaceSeparators(s) == [i \in DOMAIN s |-> IF s[i] \in {"_", "-"} THEN " " ELSE s[i]]

\* s.replace(/\b\w/g, l => l.toUpperCase()): a word character that starts a
\* run of word characters is upper-cased
CapitalizeWords(s) ==
  [i \in DOMAIN s |->
     IF IsWordChar(s[i]) /\ (i = 1 \/ ~IsWordChar(s[i-1]))
     THEN ToUpperCase(s[i]) ELSE s[i]]

\* String.prototype.split('.')
RECURSIVE Split(_)
Split(s) ==
  IF \A i \in DOMAIN s : s[i] # "."
  THEN <<s>>
  ELSE LET i == CHOOSE j \in DOMAIN s : s[j] = "." /\ \A k \in 1..(j-1) : s[k] # "."
       IN  <<SubSeq(s, 1, i-1)>> \o Split(SubSeq(s, i+1, Len(s)))

\* t contains p as a contiguous substring (String.prototype.includes)
Includes(t, p) ==
  \E i \in 0..(Len(t) - Len(p)) : SubSeq(t, i+1, i+Len(p)) = p

\* ------------------------------------------------------------------------
\* JavaScript values
\* ------------------------------------------------------------------------
Undefined == [kind |-> "undefined", s |-> <<>>]
Null      == [kind |-> "null", s |-> <<>>]
Obj       == [kind |-> "object", s |-> <<>>]
Arr       == [kind |-> "array", s |-> <<>>]
Str(s)    == [kind |-> "string", s |-> s]

\* JavaScript truthiness of a value
Truthy(v) == v.kind \in {"object", "array"} \/ (v.kind = "string" /\ v.s # <<>>)

\* ------------------------------------------------------------------------
\* Translation dictionaries: a tree given as a function from the paths of
\* the tree to the value stored there (Obj for an inner node).
\* ------------------------------------------------------------------------
SegNav         == <<"n","a","v">>
SegHome        == <<"h","o","m","e">>
SegMenuTitle   == <<"m","e","n","u","_","t","i","t","l","e">>
SegMeta        == <<"m","e","t","a">>
SegDescription == <<"d","e","s","c","r","i","p","t","i","o","n">>
SegProjects    == <<"p","r","o","j","e","c","t","s">>
SegDetails     == <<"d","e","t","a","i","l","s">>
SegViewDetails == <<"v","i","e","w","_","d","e","t","a","i","l","s">>
SegScope       == <<"s","c","o","p","e">>
SegSummary     == <<"s","u","m","m","a","r","y">>

TreePaths ==
  { <<SegNav>>, <<SegNav, SegHome>>, <<SegNav, SegMenuTitle>>,
    <<SegMeta>>, <<SegMeta, SegDescription>>,
    <<SegProjects>>, <<SegProjects, SegDetails>>,
    <<SegProjects, SegDetails, SegViewDetails>>,
    <<SegProjects, SegDetails, SegScope>>, <<SegProjects, SegSummary>> }

EmptyDict == [p \in TreePaths |-> Undefined]

\* the keys used by the pages, as the strings found in the markup
KeyNavHome     == <<"n","a","v",".","h","o","m","e">>
KeyMenuTitle   == <<"n","a","v",".","m","e","n","u","_","t","i","t","l","e">>
KeyMetaDesc    == <<"m","e","t","a",".","d","e","s","c","r","i","p","t","i","o","n">>
KeyViewDetails == <<"p","r","o","j","e","c","t","s",".","d","e","t","a","i","l","s",".","v","i","e","w","_","d","e","t","a","i","l","s">>
KeyScope       == <<"p","r","o","j","e","c","t","s",".","d","e","t","a","i","l","s",".","s","c","o","p","e">>
KeySummary     == <<"p","r","o","j","e","c","t","s",".","s","u","m","m","a","r","y">>

Langs == {"en", "lo"}

\* ------------------------------------------------------------------------
\* I18n: lookup
\* ------------------------------------------------------------------------
\* current[key] for a value of the dictionary tree found at path p
Property(d, cur, p) ==
  IF cur.kind = "object" /\ p \in TreePaths THEN d[p] ELSE Undefined

\* path.split('.').reduce((current, key) =>
\*    current && current[key] !== undefined ? current[key] : undefined, obj)
RECURSIVE Reduce(_, _, _, _, _)
Reduce(d, segs, i, curPath, cur) ==
  IF i > Len(segs) THEN cur
  ELSE LET p    == Append(curPath, segs[i])
           next == IF Truthy(cur) /\ Property(d, cur, p) # Undefined
                   THEN Property(d, cur, p) ELSE Undefined
       IN  Reduce(d, segs, i + 1, p, next)

\* path.split('.'), tabulated for the keys of the pages
PageKeys == {KeyNavHome, KeyMenuTitle, KeyMetaDesc, KeyViewDetails, KeyScope, KeySummary}
SplitTable == [k \in PageKeys |-> Split(k)]
SplitPath(path) == IF path \in PageKeys THEN SplitTable[path] ELSE Split(path)

getNestedValue(obj, path) ==
  IF ~obj.has \/ path = <<>> THEN Undefined
  ELSE Reduce(obj.d, SplitPath(path), 1, <<>>, Obj)

MissingMarker == Str(<<"[","M","I","S","S","I","N","G","]">>)
MissingPrefix == <<"[","M","I","S","S","I","N","G",":"," ">>

\* mutant of handleMissingKey: the placeholder is built from the first segment
handleMissingKey_FirstPart(key, fallback) ==
  IF fallback = MissingMarker
  THEN LET parts == Split(key)
       IN  Str(MissingPrefix \o CapitalizeWords(ReplaceSeparators(parts[1])) \o <<"]">>)
  ELSE fallback

handleMissingKey(key, fallback) ==
  IF fallback = MissingMarker
  THEN LET parts    == Split(key)
           lastPart == parts[Len(parts)]
       IN  Str(MissingPrefix \o CapitalizeWords(ReplaceSeparators(lastPart)) \o <<"]">>)
  ELSE fallback

fallbackLang == "en"

\* translations[lang]; undefined for a language that was never loaded
DictOf(tr, lang) ==
  IF lang \in DOMAIN tr THEN tr[lang] ELSE [has |-> FALSE, d |-> EmptyDict]

\* mutant of Usable: the empty string is accepted as a translation
Usable_AcceptsEmpty(v) == v # Undefined /\ v # Null

Usable(v) == v # Undefined /\ v # Null /\ v # Str(<<>>)

t(tr, lang, key, fallback) ==
  LET translation == getNestedValue(DictOf(tr, lang), key)
      fallbackTranslation == getNestedValue(DictOf(tr, fallbackLang), key)
  IN  IF Usable(translation) THEN translation
      ELSE IF lang # fallbackLang /\ Usable(fallbackTranslation) THEN fallbackTranslation
      ELSE handleMissingKey(key, fallback)

\* ------------------------------------------------------------------------
\* Texts of the dictionaries.  The JSON files are data; what matters is that
\* the two languages hold different non-empty strings for the same key.
\* ------------------------------------------------------------------------
TextOf(lang, seg) ==
  IF lang = "en" THEN <<"E", ":">> \o seg ELSE <<"L", ":">> \o seg

\* the values a leaf of a dictionary file can hold
LeafValues(lang, seg) == {Undefined, Null, Str(<<>>), Str(TextOf(lang, seg)), Arr}

\* Dictionaries for the lookup specification: every shape of the "nav"
\* subtree (absent, null, a string, or an object with any two leaves).
NavDict(navValue, homeValue, menuValue) ==
  [p \in TreePaths |->
     IF p = <<SegNav>> THEN navValue
     ELSE IF p = <<SegNav, SegHome>> THEN homeValue
     ELSE IF p = <<SegNav, SegMenuTitle>> THEN menuValue
     ELSE Undefined]

LookupDicts(lang) ==
  { NavDict(v, Undefined, Undefined) : v \in {Undefined, Null, Str(TextOf(lang, SegNav))} }
  \cup { NavDict(Obj, h, m) : h \in LeafValues(lang, SegHome), m \in LeafValues(lang, SegMenuTitle) }

\* keys handed to t in the lookup specification: leaves, an inner node, a
\* path through a leaf, an unknown key and the empty key
KeyNav         == <<"n","a","v">>
KeyThroughLeaf == <<"n","a","v",".","h","o","m","e",".","s","c","o","p","e">>
KeyUnknown     == <<"h","e","r","o",".","c","t","a","-","t","o","p">>
LookupKeys == {KeyNavHome, KeyMenuTitle, KeyNav, KeyThroughLeaf, KeyUnknown, <<>>}

\* the codes a caller can pass to set(), or that storage can hold: the two
\* languages and one unrecognized code
Codes == Langs \cup {"fr"}

\* ------------------------------------------------------------------------
\* Data: dictionary files, built-in fallbacks, cache entries, markup
\* ------------------------------------------------------------------------
InnerPaths == {<<SegNav>>, <<SegMeta>>, <<SegProjects>>, <<SegProjects, SegDetails>>}

\* texts that the scripts write into the markup they build
ViewDetailsMarkup == <<"V","i","e","w"," ","D","e","t","a","i","l","s">>
ProjectScopeText  == <<"P","r","o","j","e","c","t"," ","S","c","o","p","e">>
NoDescriptionText == <<"N","o"," ","d","e","s","c","r","i","p","t","i","o","n">>

\* the text a dictionary file holds for a leaf: the English file agrees with
\* the English texts of the markup
FileText(lang, seg) ==
  IF lang = "en" /\ seg = SegViewDetails THEN ViewDetailsMarkup
  ELSE IF lang = "en" /\ seg = SegScope THEN ProjectScopeText
  ELSE IF lang = "en" /\ seg = SegHome THEN <<"H","o","m","e">>
  ELSE TextOf(lang, seg)

\* assets/i18n/<lang>.json: every key of the pages is translated
FullDictOf(lang) ==
  [p \in TreePaths |-> IF p \in InnerPaths THEN Obj ELSE Str(FileText(lang, p[Len(p)]))]
FullDicts == [lang \in Langs |-> FullDictOf(lang)]
FullDict(lang) == FullDicts[lang]

FallbackHome(lang) == IF lang = "en" THEN <<"H","o","m","e">> ELSE <<"N","a","L","a","k">>

\* the built-in dictionary: of the keys of the model it holds only nav.home
fallbacks ==
  [lang \in Langs |->
     [p \in TreePaths |->
        IF p = <<SegNav>> THEN Obj
        ELSE IF p = <<SegNav, SegHome>> THEN Str(FallbackHome(lang))
        ELSE Undefined]]

getFallbackTranslations(lang) == IF lang \in Langs THEN fallbacks[lang] ELSE fallbacks["en"]

\* a dictionary found in the cache: an older copy with nav.menu_title and
\* projects.details.scope only
CachedDicts ==
  [lang \in Langs |->
     [p \in TreePaths |->
        IF p \in {<<SegNav>>, <<SegProjects>>, <<SegProjects, SegDetails>>} THEN Obj
        ELSE IF p \in {<<SegNav, SegMenuTitle>>, <<SegProjects, SegDetails, SegScope>>}
             THEN Str(<<"C", ":">> \o TextOf(lang, p[Len(p)]))
        ELSE Undefined]]
CachedDict(lang) == CachedDicts[lang]

CacheMaxAgeMs == 24 * 60 * 60 * 1000

\* what localStorage holds under i18n-cache-<lang>: nothing, or an entry
\* that is just younger or just as old as the limit
CacheEntries(lang) ==
  {[kind |-> "none", age |-> 0, d |-> EmptyDict]}
  \cup {[kind |-> "entry", age |-> a, d |-> CachedDict(lang)] : a \in {CacheMaxAgeMs - 1, CacheMaxAgeMs}}

Unread == [kind |-> "unread", age |-> 0, d |-> EmptyDict]

\* mutant of loadFromCache: an entry that is exactly 24 hours old is used
loadFromCache_Stale(entry) ==
  IF entry.kind = "entry" /\ entry.age <= CacheMaxAgeMs
  THEN [found |-> TRUE, d |-> entry.d]
  ELSE [found |-> FALSE, d |-> EmptyDict]

\* mutant of loadFromCache: the cached copy is never used
loadFromCache_Never(entry) == [found |-> FALSE, d |-> EmptyDict]

\* loadFromCache: the cached dictionary, or null
loadFromCache(entry) ==
  IF entry.kind = "entry" /\ entry.age < CacheMaxAgeMs
  THEN [found |-> TRUE, d |-> entry.d]
  ELSE [found |-> FALSE, d |-> EmptyDict]

\* { ...a, ...b }: the top-level properties of b replace those of a
Spread(a, b) ==
  [p \in TreePaths |-> IF b[<<p[1]>>] # Undefined THEN b[p] ELSE a[p]]

\* the static elements that carry data-i18n: a navigation link (shell.js)
\* and a meta tag that names its target attribute with data-i18n-attr
Elems == {"navHome", "metaDesc"}
ElemKey(e) == IF e = "navHome" THEN KeyNavHome ELSE KeyMetaDesc
ElemAttr(e) == IF e = "navHome" THEN "" ELSE "content"
MarkupBound ==
  [e \in Elems |-> IF e = "navHome"
                   THEN [text |-> <<"H","o","m","e">>, content |-> <<>>]
                   ELSE [text |-> <<>>, content |-> <<"T","P","E","C">>]]

\* assets/data/projects.json
ProjectsFile ==
  << [slug |-> "bridge-a", status |-> "ongoing", summary_i18n_key |-> KeySummary,
       featured |-> TRUE],
     [slug |-> "road-b", status |-> "completed", summary_i18n_key |-> KeySummary,
       featured |-> FALSE] >>

Pages == {"projects", "contact"}

\* textContent / attribute value written for a value
ToText(v) == IF v.kind = "string" THEN v.s ELSE <<"[","o","b","j","e","c","t","]">>

\* ------------------------------------------------------------------------
\* The state as one record, so that a handler is a function of the state
\* ------------------------------------------------------------------------
St ==
  [stored |-> stored, currentLang |-> currentLang, translations |-> translations,
   bound |-> bound, htmlLang |-> htmlLang, ogLocale |-> ogLocale, hreflang |-> hreflang,
   switcher |-> switcher, ongoingGrid |-> ongoingGrid, completedGrid |-> completedGrid,
   detail |-> detail, hash |-> hash, pc |-> pc, page |-> page, projects |-> projects,
   initialHash |-> initialHash, listening |-> listening, retryAttempts |-> retryAttempts,
   reqs |-> reqs, tCall |-> tCall, setCall |-> setCall, roundTrip |-> roundTrip,
   lastFetch |-> lastFetch, loadResult |-> loadResult, cacheRead |-> cacheRead,
   loads |-> loads, lastSet |-> lastSet,
   tab |-> tab, timer |-> timer, escapeArmed |-> escapeArmed, lastOp |-> lastOp,
   gsap |-> gsap, scrollTrigger |-> scrollTrigger, prefReduced |-> prefReduced, motionThrows |-> motionThrows, motion |-> motion, bodyClass |-> bodyClass, triggers |-> triggers,
   eh |-> eh,
   featuredGrid |-> featuredGrid,
   pushed |-> pushed]

vars ==
  <<stored, currentLang, translations, bound, htmlLang, ogLocale, hreflang, switcher,
    ongoingGrid, completedGrid, detail, hash, pc, page, projects, initialHash, listening,
    retryAttempts, reqs, tCall, setCall, roundTrip, lastFetch, loadResult, cacheRead,
    loads, lastSet,
    tab, timer, escapeArmed, lastOp,
    gsap, scrollTrigger, prefReduced, motionThrows, motion, bodyClass, triggers,
    eh,
    featuredGrid,
    pushed>>

Install(s) ==
  /\ stored' = s.stored
  /\ currentLang' = s.currentLang
  /\ translations' = s.translations
  /\ bound' = s.bound
  /\ htmlLang' = s.htmlLang
  /\ ogLocale' = s.ogLocale
  /\ hreflang' = s.hreflang
  /\ switcher' = s.switcher
  /\ ongoingGrid' = s.ongoingGrid
  /\ completedGrid' = s.completedGrid
  /\ detail' = s.detail
  /\ hash' = s.hash
  /\ pc' = s.pc
  /\ page' = s.page
  /\ projects' = s.projects
  /\ initialHash' = s.initialHash
  /\ listening' = s.listening
  /\ retryAttempts' = s.retryAttempts
  /\ reqs' = s.reqs
  /\ tCall' = s.tCall
  /\ setCall' = s.setCall
  /\ roundTrip' = s.roundTrip
  /\ lastFetch' = s.lastFetch
  /\ loadResult' = s.loadResult
  /\ cacheRead' = s.cacheRead
  /\ loads' = s.loads
  /\ lastSet' = s.lastSet
  /\ tab' = s.tab
  /\ timer' = s.timer
  /\ escapeArmed' = s.escapeArmed
  /\ lastOp' = s.lastOp
  /\ gsap' = s.gsap
  /\ scrollTrigger' = s.scrollTrigger
  /\ prefReduced' = s.prefReduced
  /\ motionThrows' = s.motionThrows
  /\ motion' = s.motion
  /\ bodyClass' = s.bodyClass
  /\ triggers' = s.triggers
  /\ eh' = s.eh
  /\ featuredGrid' = s.featuredGrid
  /\ pushed' = s.pushed

\* the state is s (for the initial predicates)
Holds(s) ==
  /\ stored = s.stored
  /\ currentLang = s.currentLang
  /\ translations = s.translations
  /\ bound = s.bound
  /\ htmlLang = s.htmlLang
  /\ ogLocale = s.ogLocale
  /\ hreflang = s.hreflang
  /\ switcher = s.switcher
  /\ ongoingGrid = s.ongoingGrid
  /\ completedGrid = s.completedGrid
  /\ detail = s.detail
  /\ hash = s.hash
  /\ pc = s.pc
  /\ page = s.page
  /\ projects = s.projects
  /\ initialHash = s.initialHash
  /\ listening = s.listening
  /\ retryAttempts = s.retryAttempts
  /\ reqs = s.reqs
  /\ tCall = s.tCall
  /\ setCall = s.setCall
  /\ roundTrip = s.roundTrip
  /\ lastFetch = s.lastFetch
  /\ loadResult = s.loadResult
  /\ cacheRead = s.cacheRead
  /\ loads = s.loads
  /\ lastSet = s.lastSet
  /\ tab = s.tab
  /\ timer = s.timer
  /\ escapeArmed = s.escapeArmed
  /\ lastOp = s.lastOp
  /\ gsap = s.gsap
  /\ scrollTrigger = s.scrollTrigger
  /\ prefReduced = s.prefReduced
  /\ motionThrows = s.motionThrows
  /\ motion = s.motion
  /\ bodyClass = s.bodyClass
  /\ triggers = s.triggers
  /\ eh = s.eh
  /\ featuredGrid = s.featuredGrid
  /\ pushed = s.pushed

ReqIds == {"en", "lo", "projects"}

\* the calls of loadProjectsWithRetry that can be in progress at one time;
\* all of them fetch 'assets/data/projects.json' with the same options
FeaturedCalls == <<"f1", "f2", "f3", "f4">>
CallIds == ReqIds \cup {FeaturedCalls[i] : i \in DOMAIN FeaturedCalls}
RetryKeys == ReqIds \cup {"featured"}

\* `${url}-${JSON.stringify(options)}`
RetryKey(r) == IF r \in ReqIds THEN r ELSE "featured"
IdleReq == [st |-> "idle", attempts |-> 0, calls |-> 0]
NoCall == [called |-> FALSE, key |-> <<>>, result |-> Undefined]
NoSet == [done |-> FALSE, arg |-> "none", from |-> "none", changed |-> FALSE, log |-> <<>>, observed |-> {}]
NoRoundTrip == [phase |-> 0, snap |-> <<>>]
NoFetch == [id |-> "none", calls |-> 0, ok |-> FALSE, valid |-> FALSE]
NoOp == [op |-> "none", arg |-> ""]

\* ErrorHandler after its constructor: no error recorded, no banner in the
\* document, no timer; flag is sessionStorage['error-message-shown'] and
\* shown counts the banners inserted in this session
NoErrors == [errors |-> <<>>, banner |-> "none", timer |-> FALSE, shown |-> 0, flag |-> FALSE]

\* the Motion object after its constructor, and a page without scroll triggers
NoMotion ==
  [inited |-> FALSE, gsapLoaded |-> FALSE, scrollTriggerLoaded |-> FALSE,
   reducedMotion |-> FALSE, timeline |-> "running", errors |-> FALSE, toggles |-> 0,
   targets |-> {}, listeners |-> 0, perElement |-> 0]
TriggerOwners == {"reveal", "detail"}
NoTriggers == [o \in TriggerOwners |-> "none"]
NoDetail == [slug |-> "none", open |-> FALSE, scopeLabel |-> <<>>, summary |-> <<>>]
MarkupGrid == [kind |-> "markup", cards |-> <<>>]

\* the state when the scripts of a page have been evaluated: the
\* constructors have run (I18n: config.js 607-612, App: part_004 7-10,
\* ErrorHandler: config.js 93-99) and the document is the markup
ScriptsLoaded(pg, sto, n, ls) ==
  [stored |-> sto, currentLang |-> "en",
   translations |-> [l \in Langs |-> [has |-> FALSE, d |-> EmptyDict]],
   bound |-> MarkupBound, htmlLang |-> "en", ogLocale |-> "en_US", hreflang |-> "markup",
   switcher |-> [ready |-> FALSE, active |-> "none"],
   ongoingGrid |-> MarkupGrid, completedGrid |-> MarkupGrid, detail |-> NoDetail,
   hash |-> "", pc |-> "scripts", page |-> pg, projects |-> [loaded |-> FALSE, list |-> <<>>],
   initialHash |-> "", listening |-> FALSE,
   retryAttempts |-> [k \in RetryKeys |-> 0], reqs |-> [r \in CallIds |-> IdleReq],
   tCall |-> NoCall, setCall |-> NoSet, roundTrip |-> NoRoundTrip, lastFetch |-> NoFetch,
   loadResult |-> [l \in Langs |-> "pending"], cacheRead |-> [l \in Langs |-> Unread],
   loads |-> n, lastSet |-> ls,
   tab |-> "ongoing", timer |-> "none", escapeArmed |-> FALSE, lastOp |-> NoOp,
   gsap |-> TRUE, scrollTrigger |-> "present", prefReduced |-> FALSE, motionThrows |-> FALSE, motion |-> NoMotion, bodyClass |-> {}, triggers |-> NoTriggers,
   eh |-> NoErrors,
   featuredGrid |-> MarkupGrid,
   pushed |-> <<>>]

\* an operation other than a language switch starts from here
Fresh(s) ==
  [s EXCEPT !.setCall = NoSet, !.roundTrip = NoRoundTrip, !.lastFetch = NoFetch, !.lastOp = NoOp,
            !.pushed = <<>>]

\* history: a step of I18n.set, in the order executed
Step(name, s) == [s EXCEPT !.setCall.log = Append(@, name)]

\* ------------------------------------------------------------------------
\* I18n: binder and language switch
\* ------------------------------------------------------------------------
T(s, key) == ToText(t(s.translations, s.currentLang, key, MissingMarker))

\* every element of the document with data-i18n: the static ones, the
\* buttons of the project cards and the headings of the detail section
I18n_applyTranslations(s) ==
  LET rebind(grid) ==
        [grid EXCEPT !.cards = [i \in DOMAIN grid.cards |->
                                  [grid.cards[i] EXCEPT !.btn = T(s, KeyViewDetails)]]]
  IN  [s EXCEPT
         !.bound = [e \in Elems |->
                      IF ElemAttr(e) # ""
                      THEN [s.bound[e] EXCEPT !.content = T(s, ElemKey(e))]
                      ELSE [s.bound[e] EXCEPT !.text = T(s, ElemKey(e))]],
         !.ongoingGrid = rebind(@),
         !.completedGrid = rebind(@),
         !.detail = IF @.slug # "none" THEN [@ EXCEPT !.scopeLabel = T(s, KeyScope)] ELSE @]

I18n_updateHtmlLang(s) == [s EXCEPT !.htmlLang = s.currentLang]

Locale(lang) == IF lang = "lo" THEN "lo_LA" ELSE "en_US"

I18n_updateMetaTags(s) ==
  [s EXCEPT !.bound["metaDesc"].content = T(s, KeyMetaDesc),
            !.ogLocale = Locale(s.currentLang)]

I18n_updateLanguageSwitcher(s) ==
  [s EXCEPT !.switcher.active = IF s.currentLang \in Langs THEN s.currentLang ELSE "none"]

I18n_initLanguageSwitcher(s) ==
  I18n_updateLanguageSwitcher([s EXCEPT !.switcher.ready = TRUE])

SEO_updateHreflangTags(s, lang) ==
  [s EXCEPT !.hreflang = "canonical", !.htmlLang = lang, !.ogLocale = Locale(lang)]

\* ------------------------------------------------------------------------
\* App: project rendering and the reaction to a language switch
\* ------------------------------------------------------------------------
createProjectCard(s, project) ==
  [slug |-> project.slug,
   btn |-> ViewDetailsMarkup,
   summary |-> ToText(t(s.translations, s.currentLang, project.summary_i18n_key,
                        Str(NoDescriptionText)))]

\* mutant of renderProjectGrid: the cards are appended in reverse order
renderProjectGrid_Reversed(s, list) ==
  IF Len(list) = 0 THEN [kind |-> "empty", cards |-> <<>>]
  ELSE [kind |-> "cards",
        cards |-> [i \in DOMAIN list |-> createProjectCard(s, list[Len(list) + 1 - i])]]

renderProjectGrid(s, list) ==
  IF Len(list) = 0 THEN [kind |-> "empty", cards |-> <<>>]
  ELSE [kind |-> "cards", cards |-> [i \in DOMAIN list |-> createProjectCard(s, list[i])]]

\* mutant of HasStatus: the filter keeps every record
HasStatus_All(list, status) == list

HasStatus(list, status) == SelectSeq(list, LAMBDA p : p.status = status)

App_renderProjectTabs(s) ==
  IF ~s.projects.loaded THEN s
  ELSE [s EXCEPT !.ongoingGrid = renderProjectGrid(s, HasStatus(s.projects.list, "ongoing")),
                 !.completedGrid = renderProjectGrid(s, HasStatus(s.projects.list, "completed"))]

\* entry of fetchWithRetry: the attempt count of the key is read and the
\* underlying fetch is called
fetchWithRetry_call(s, r, first) ==
  [s EXCEPT !.reqs[r] = [st |-> "inflight",
                         attempts |-> s.retryAttempts[RetryKey(r)],
                         calls |-> IF first THEN 1 ELSE @.calls + 1]]

\* the call of loadProjectsWithRetry that starts next
FreeCalls(s) == {i \in DOMAIN FeaturedCalls : s.reqs[FeaturedCalls[i]].st = "idle"}
FreeCall(s) == FeaturedCalls[CHOOSE i \in FreeCalls(s) : \A j \in FreeCalls(s) : i <= j]

\* renderFeaturedProjects up to its await
App_renderFeaturedProjects_start(s) == fetchWithRetry_call(s, FreeCall(s), TRUE)

\* mutant of App_renderFeaturedProjects_settle: the grid is not emptied
App_renderFeaturedProjects_settle_Appends(s, response) ==
  LET list == IF response.kind = "response" /\ response.body.valid
              THEN response.body.list ELSE <<>>
      featuredProjects == SelectSeq(list, LAMBDA p : p.featured)
  IN  IF Len(featuredProjects) = 0
      THEN [s EXCEPT !.featuredGrid = [kind |-> "fallback", cards |-> <<>>]]
      ELSE [s EXCEPT !.featuredGrid =
              [kind |-> "cards",
               cards |-> @.cards \o
                         [i \in DOMAIN featuredProjects |->
                            [slug |-> featuredProjects[i].slug,
                             summary |-> ToText(t(s.translations, s.currentLang,
                                                  featuredProjects[i].summary_i18n_key,
                                                  Str(NoDescriptionText)))]]]]

\* renderFeaturedProjects after its await: loadProjectsWithRetry has
\* returned the file, or an empty list when the load failed
App_renderFeaturedProjects_settle(s, response) ==
  LET list == IF response.kind = "response" /\ response.body.valid
              THEN response.body.list ELSE <<>>
      featuredProjects == SelectSeq(list, LAMBDA p : p.featured)
  IN  IF Len(featuredProjects) = 0
      THEN [s EXCEPT !.featuredGrid = [kind |-> "fallback", cards |-> <<>>]]
      ELSE [s EXCEPT !.featuredGrid =
              [kind |-> "cards",
               cards |-> [i \in DOMAIN featuredProjects |->
                            [slug |-> featuredProjects[i].slug,
                             summary |-> ToText(t(s.translations, s.currentLang,
                                                  featuredProjects[i].summary_i18n_key,
                                                  Str(NoDescriptionText)))]]]]

\* history: what a notified renderer sees when it is called
Observe(s, language) ==
  [s EXCEPT !.setCall.log = Append(@, "notify"),
            !.setCall.observed = @ \cup {[lang |-> language, currentLang |-> s.currentLang,
                                          stored |-> s.stored]}]

App_handleLanguageChange(s, language) ==
  LET seen == Observe(s, language)
  IN  IF s.page = "projects" THEN App_renderProjectTabs(seen)
      ELSE IF s.page = "home" THEN App_renderFeaturedProjects_start(seen)
      ELSE seen

\* setupProjectDetailAnimations: parallax of the hero image and reveals of
\* the detail sections, created with window.ScrollTrigger
App_setupProjectDetailAnimations(s) ==
  IF ~s.motion.gsapLoaded THEN s
  ELSE IF s.scrollTrigger = "present" THEN [s EXCEPT !.triggers["detail"] = "enabled"]
  ELSE s

\* mutant of App_showProjectDetail: the hash is not rewritten
App_showProjectDetail_NoHash(s, project) ==
  App_setupProjectDetailAnimations(
  [s EXCEPT !.escapeArmed = TRUE,
            !.detail = [slug |-> project.slug, open |-> TRUE,
                        scopeLabel |-> ToText(t(s.translations, s.currentLang, KeyScope,
                                                Str(ProjectScopeText))),
                        summary |-> ToText(t(s.translations, s.currentLang,
                                             project.summary_i18n_key, Str(NoDescriptionText)))]])

App_showProjectDetail(s, project) ==
  App_setupProjectDetailAnimations(
  [s EXCEPT !.hash = project.slug,
            !.pushed = Append(@, project.slug),
            !.escapeArmed = TRUE,
            !.detail = [slug |-> project.slug, open |-> TRUE,
                        scopeLabel |-> ToText(t(s.translations, s.currentLang, KeyScope,
                                                Str(ProjectScopeText))),
                        summary |-> ToText(t(s.translations, s.currentLang,
                                             project.summary_i18n_key, Str(NoDescriptionText)))]])

\* mutant of App_hideProjectDetail: closing goes back to the first tab
App_hideProjectDetail_FirstTab(s) ==
  [s EXCEPT !.detail.open = FALSE, !.hash = "", !.pushed = Append(@, ""), !.tab = "ongoing"]

App_hideProjectDetail(s) ==
  [s EXCEPT !.detail.open = FALSE, !.hash = "", !.pushed = Append(@, "")]

\* the tab buttons, in document order
TabButtons == <<"ongoing", "completed">>

\* switchTab of setupProjectTabs: the button and its content become the
\* active ones
switchTab(s, targetTab) == [s EXCEPT !.tab = targetTab]

TabKeys == {"ArrowLeft", "ArrowUp", "ArrowRight", "ArrowDown", "Home", "End", "Enter"}

\* the keydown handler of a tab button: the index of the button to
\* activate, or 0 for a key that is not handled
KeyTarget(index, key) ==
  IF key \in {"ArrowLeft", "ArrowUp"} THEN (IF index > 1 THEN index - 1 ELSE Len(TabButtons))
  ELSE IF key \in {"ArrowRight", "ArrowDown"} THEN (IF index < Len(TabButtons) THEN index + 1 ELSE 1)
  ELSE IF key = "Home" THEN 1
  ELSE IF key = "End" THEN Len(TabButtons)
  ELSE 0

\* projects.find(p => p.slug === slug): the index of the first match, or 0
Find(list, slug) ==
  IF \E i \in DOMAIN list : list[i].slug = slug
  THEN CHOOSE i \in DOMAIN list : list[i].slug = slug /\ \A j \in 1..(i - 1) : list[j].slug # slug
  ELSE 0

\* the hashchange listener of setupProjectDeepLinking
App_onHashChange(s) ==
  IF s.hash = "" THEN App_hideProjectDetail(s)
  ELSE IF s.projects.loaded /\ Find(s.projects.list, s.hash) # 0
       THEN App_showProjectDetail(s, s.projects.list[Find(s.projects.list, s.hash)])
  ELSE s

\* mutant of I18n_set: the renderers are notified before anything else
I18n_set_NotifyFirst(s, language) ==
  IF language = s.currentLang THEN s
  ELSE LET n1 == IF s.listening THEN App_handleLanguageChange(s, language) ELSE s
           n2 == App_handleLanguageChange(n1, language)
           s1 == [n2 EXCEPT !.currentLang = language]
           s2 == Step("persist", [s1 EXCEPT !.stored = language])
           s3 == Step("bind", I18n_applyTranslations(s2))
           s4 == Step("lang", I18n_updateMetaTags(I18n_updateHtmlLang(s3)))
           s5 == I18n_updateLanguageSwitcher(s4)
       IN  Step("hreflang", SEO_updateHreflangTags(s5, language))

I18n_set(s, language) ==
  IF language = s.currentLang THEN s
  ELSE LET s1 == [s EXCEPT !.currentLang = language]
           s2 == Step("persist", [s1 EXCEPT !.stored = language])
           s3 == Step("bind", I18n_applyTranslations(s2))
           s4 == Step("lang", I18n_updateMetaTags(I18n_updateHtmlLang(s3)))
           s5 == I18n_updateLanguageSwitcher(s4)
           s6 == Step("hreflang", SEO_updateHreflangTags(s5, language))
           \* window.dispatchEvent(new CustomEvent('languageChanged'))
           s7 == IF s6.listening THEN App_handleLanguageChange(s6, language) ELSE s6
           \* window.app.handleLanguageChange(language)
       IN  App_handleLanguageChange(s7, language)

\* ------------------------------------------------------------------------
\* ErrorHandler: the retry wrapper installed over window.fetch
\* ------------------------------------------------------------------------
maxRetries == 3

Rejected == [kind |-> "rejected", body |-> [valid |-> FALSE, d |-> EmptyDict, list |-> <<>>]]

\* mutant of fetchWithRetry_result: the recursive call is not returned, so
\* that a retried request resolves to undefined
fetchWithRetry_result_Dropped(req, response) ==
  IF req.calls > 1 THEN [kind |-> "undefined", body |-> Rejected.body] ELSE response

\* what the caller's await receives when an attempt succeeds: the response,
\* handed up through `return this.fetchWithRetry(...)`
fetchWithRetry_result(req, response) == response

\* the bodies the server can answer with: the file, or text that is not JSON
Bodies(r) ==
  {[valid |-> FALSE, d |-> EmptyDict, list |-> <<>>]}
  \cup (IF r \in Langs THEN {[valid |-> TRUE, d |-> FullDict(r), list |-> <<>>]}
        ELSE {[valid |-> TRUE, d |-> EmptyDict, list |-> ProjectsFile]})

\* ------------------------------------------------------------------------
\* I18n.init / loadTranslations and App.init, cut at their awaits
\* ------------------------------------------------------------------------
\* one round of the loop of loadTranslations, after its fetch has settled
I18n_loadTranslations_settle(s, lang, response, entry) ==
  IF response.kind = "response" /\ response.body.valid
  THEN [s EXCEPT !.translations[lang] = [has |-> TRUE, d |-> response.body.d],
                 !.loadResult[lang] = "ok"]
  ELSE LET cached == loadFromCache(entry)
           builtin == getFallbackTranslations(lang)
       IN  [s EXCEPT !.translations[lang] =
                        [has |-> TRUE,
                         d |-> IF cached.found THEN Spread(builtin, cached.d) ELSE builtin],
                     !.loadResult[lang] = "failed",
                     !.cacheRead[lang] = entry]

\* mutant of I18n_init_start: the stored preference is not read
I18n_init_start_Default(s) == [s EXCEPT !.currentLang = "en", !.pc = "i18n_en"]

\* init up to loadTranslations: the preference is read from storage
I18n_init_start(s) ==
  [s EXCEPT !.currentLang = IF s.stored # "none" THEN s.stored ELSE "en",
            !.pc = "i18n_en"]

\* init after loadTranslations; App.init then awaits Motion.init
I18n_init_finish(s) ==
  [I18n_initLanguageSwitcher(I18n_updateHtmlLang(I18n_applyTranslations(s)))
     EXCEPT !.pc = "motion"]

LoadingGrid == [kind |-> "loading", cards |-> <<>>]
ErrorGrid == [kind |-> "error", cards |-> <<>>]

\* loadProjects up to its await
App_loadProjects_start(s) ==
  fetchWithRetry_call([s EXCEPT !.ongoingGrid = LoadingGrid, !.completedGrid = LoadingGrid],
                      "projects", TRUE)

\* mutant of App_loadProjects_settle: the initial hash is not looked at
App_loadProjects_settle_NoDeepLink(s, response) ==
  IF response.kind = "response" /\ response.body.valid
  THEN [App_renderProjectTabs([s EXCEPT !.projects = [loaded |-> TRUE, list |-> response.body.list]])
          EXCEPT !.pc = "ready"]
  ELSE [s EXCEPT !.projects = [loaded |-> TRUE, list |-> <<>>],
                 !.ongoingGrid = ErrorGrid, !.completedGrid = ErrorGrid,
                 !.pc = "ready"]

\* mutant of App_loadProjects_settle: a failure leaves the loading indicator
App_loadProjects_settle_KeepsLoading(s, response) ==
  IF response.kind = "response" /\ response.body.valid
  THEN [App_renderProjectTabs([s EXCEPT !.projects = [loaded |-> TRUE, list |-> response.body.list]])
          EXCEPT !.pc = "ready",
                 !.timer = IF s.initialHash # "" /\ Find(response.body.list, s.initialHash) # 0
                           THEN s.initialHash ELSE @]
  ELSE [s EXCEPT !.projects = [loaded |-> TRUE, list |-> <<>>], !.pc = "ready"]

\* loadProjects after its fetch has settled; with an initial hash that is
\* the slug of a record, a timer is set to show that record
App_loadProjects_settle(s, response) ==
  IF response.kind = "response" /\ response.body.valid
  THEN [App_renderProjectTabs([s EXCEPT !.projects = [loaded |-> TRUE, list |-> response.body.list]])
          EXCEPT !.pc = "ready",
                 !.timer = IF s.initialHash # "" /\ Find(response.body.list, s.initialHash) # 0
                           THEN s.initialHash ELSE @]
  ELSE [s EXCEPT !.projects = [loaded |-> TRUE, list |-> <<>>],
                 !.ongoingGrid = ErrorGrid, !.completedGrid = ErrorGrid,
                 !.pc = "ready"]

App_setupProjectDeepLinking(s) == [s EXCEPT !.initialHash = s.hash]

\* ------------------------------------------------------------------------
\* Motion: initialization and the reduced-motion preference
\* ------------------------------------------------------------------------
\* checkReducedMotion: the preference is read and a change listener is added
Motion_checkReducedMotion(s) ==
  [s EXCEPT !.motion.reducedMotion = s.prefReduced,
            !.motion.inited = TRUE,
            !.motion.listeners = @ + 1,
            !.bodyClass = IF s.prefReduced THEN @ \cup {"reduced-motion"} ELSE @]

Motion_enableCSSFallbacks(s) == [s EXCEPT !.bodyClass = @ \cup {"no-gsap"}]

\* loadGSAP: the library is there, or (after the wait) handleGSAPLoadFailure
Motion_loadGSAP(s) ==
  IF s.gsap THEN [s EXCEPT !.motion.gsapLoaded = TRUE]
  ELSE [s EXCEPT !.bodyClass = @ \cup {"no-gsap"}]

\* loadScrollTrigger: the plugin is registered if it is there (also after
\* the wait)
Motion_loadScrollTrigger(s) ==
  IF s.scrollTrigger = "present" THEN [s EXCEPT !.motion.scrollTriggerLoaded = TRUE] ELSE s

\* document.querySelectorAll('.reveal-up'): the reveal elements of the
\* markup and the project cards that are in the grids
RevealElements(s) ==
  {"markup"} \cup {s.ongoingGrid.cards[i].slug : i \in DOMAIN s.ongoingGrid.cards}
             \cup {s.completedGrid.cards[i].slug : i \in DOMAIN s.completedGrid.cards}

\* setupAnimations: reveal, parallax and counter tweens with scroll triggers,
\* one for each element the document holds at this moment
Motion_setupAnimations(s) ==
  IF ~s.motion.gsapLoaded \/ ~s.motion.scrollTriggerLoaded \/ s.motion.reducedMotion THEN s
  ELSE [s EXCEPT !.triggers["reveal"] = "enabled",
                 !.motion.targets = @ \cup RevealElements(s),
                 !.motion.perElement = @ + 1]

\* init; an exception of gsap.registerPlugin ends in the catch
Motion_init(s) ==
  LET s1 == Motion_loadGSAP(Motion_checkReducedMotion(s))
  IN  IF s1.motion.gsapLoaded /\ ~s1.motion.reducedMotion
      THEN IF s1.scrollTrigger = "present" /\ s1.motionThrows
           THEN Motion_enableCSSFallbacks(s1)
           ELSE Motion_setupAnimations(Motion_loadScrollTrigger(s1))
      ELSE Motion_enableCSSFallbacks(s1)

\* ScrollTrigger.getAll().forEach(...) of disableAnimations and
\* enableAnimations: a ReferenceError when the global is not defined
SetTriggers(s, from, to) ==
  IF s.scrollTrigger # "present" THEN [s EXCEPT !.motion.errors = TRUE]
  ELSE [s EXCEPT !.triggers = [o \in TriggerOwners |-> IF @[o] = from THEN to ELSE @[o]]]

Motion_disableAnimations(s) ==
  IF s.motion.gsapLoaded
  THEN LET s1 == SetTriggers([s EXCEPT !.motion.timeline = "paused"], "enabled", "disabled")
       IN  IF s1.motion.errors THEN s1 ELSE [s1 EXCEPT !.bodyClass = @ \cup {"reduced-motion"}]
  ELSE [s EXCEPT !.bodyClass = @ \cup {"reduced-motion"}]

Motion_enableAnimations(s) ==
  IF s.motion.gsapLoaded /\ ~s.motion.reducedMotion
  THEN LET s1 == SetTriggers([s EXCEPT !.motion.timeline = "running"], "disabled", "enabled")
       IN  IF s1.motion.errors THEN s1 ELSE [s1 EXCEPT !.bodyClass = @ \ {"reduced-motion"}]
  ELSE s

\* the change listener of the media query
Motion_onPreferenceChange(s) ==
  LET s1 == [s EXCEPT !.motion.reducedMotion = s.prefReduced]
  IN  IF s1.motion.reducedMotion
      THEN Motion_disableAnimations([s1 EXCEPT !.bodyClass = @ \cup {"reduced-motion"}])
      ELSE Motion_enableAnimations([s1 EXCEPT !.bodyClass = @ \ {"reduced-motion"}])

\* App.init after Motion.init: bindGlobalEvents and handlePageSpecificInit
App_init_finish(s) ==
  LET s1 == [s EXCEPT !.listening = TRUE]
  IN  IF s1.page = "projects"
      THEN [App_setupProjectDeepLinking(App_loadProjects_start(s1)) EXCEPT !.pc = "projects"]
      ELSE IF s1.page = "home"
      THEN [App_renderFeaturedProjects_start(s1) EXCEPT !.pc = "ready"]
      ELSE [s1 EXCEPT !.pc = "ready"]

\* the code that awaits request r goes on
Settle(s, r, response, entry) ==
  IF r = "en"
    THEN [fetchWithRetry_call(I18n_loadTranslations_settle(s, r, response, entry), "lo", TRUE)
            EXCEPT !.pc = "i18n_lo"]
  ELSE IF r = "lo"
    THEN I18n_init_finish(I18n_loadTranslations_settle(s, r, response, entry))
  ELSE IF r = "projects"
    THEN App_loadProjects_settle(s, response)
  ELSE App_renderFeaturedProjects_settle(s, response)

\* ------------------------------------------------------------------------
\* Actions
\* ------------------------------------------------------------------------
MaxLoads == 2
MaxCalls == 6

\* DOMContentLoaded: the listener of motion.js runs Motion.init, and
\* App.init calls i18n.init, which reads the stored preference and starts
\* loading the dictionaries
AppInit ==
  /\ pc = "scripts"
  /\ \E next \in {fetchWithRetry_call(I18n_init_start(Motion_init(Fresh(St))), "en", TRUE)} :
       Install(next)

\* what loadFromCache can find when the request was for a dictionary
CacheFor(r) == IF r \in Langs THEN CacheEntries(r) ELSE {Unread}

\* an attempt fails: the underlying fetch rejects, or answers with a status
\* that is not ok (both end in the catch of fetchWithRetry)
FetchFails(r) ==
  /\ reqs[r].st = "inflight"
  /\ IF reqs[r].attempts < maxRetries
     THEN Install([Fresh(St) EXCEPT !.retryAttempts[RetryKey(r)] = reqs[r].attempts + 1,
                                    !.reqs[r].st = "backoff"])
     ELSE \E entry \in CacheFor(r) : \E next \in
            {Settle([Fresh(St) EXCEPT !.retryAttempts[RetryKey(r)] = 0,
                                      !.reqs[r] = IdleReq,
                                      !.lastFetch = [id |-> r, calls |-> reqs[r].calls,
                                                     ok |-> FALSE, valid |-> FALSE]],
                    r, Rejected, entry)} : Install(next)

\* the backoff delay has passed: fetchWithRetry calls itself
BackoffElapsed(r) ==
  /\ reqs[r].st = "backoff"
  /\ reqs[r].calls < MaxCalls
  /\ \E next \in {fetchWithRetry_call(Fresh(St), r, FALSE)} : Install(next)

\* an attempt succeeds
FetchSucceeds(r, body) ==
  /\ reqs[r].st = "inflight"
  /\ \E entry \in (IF body.valid THEN {Unread} ELSE CacheFor(r)) : \E next \in
       {Settle([Fresh(St) EXCEPT !.retryAttempts[RetryKey(r)] = 0,
                                 !.reqs[r] = IdleReq,
                                 !.lastFetch = [id |-> r, calls |-> reqs[r].calls,
                                                ok |-> TRUE, valid |-> body.valid]],
               r, fetchWithRetry_result(reqs[r], [kind |-> "response", body |-> body]), entry)} :
       Install(next)

\* Motion.init has resolved and App.init goes on
MotionInitDone ==
  /\ pc = "motion"
  /\ \E next \in {App_init_finish(Motion_init(Fresh(St)))} : Install(next)

MaxToggles == 2

\* the user changes the reduced-motion setting of the system
PrefChange ==
  /\ motion.inited
  /\ motion.toggles < MaxToggles
  /\ \E next \in {Motion_onPreferenceChange([Fresh(St) EXCEPT !.prefReduced = ~prefReduced,
                                                            !.motion.toggles = @ + 1])} :
       Install(next)

\* what the elements with data-i18n show
BoundView(s) ==
  [bound |-> s.bound,
   ongoing |-> [i \in DOMAIN s.ongoingGrid.cards |-> s.ongoingGrid.cards[i].btn],
   completed |-> [i \in DOMAIN s.completedGrid.cards |-> s.completedGrid.cards[i].btn],
   detail |-> s.detail.scopeLabel]

\* a call of i18n.set: the click handler of a language option, installed by
\* init, or any other caller of the method
SetLanguage(code) ==
  /\ switcher.ready
  /\ (page = "home" /\ code # currentLang) => Cardinality(FreeCalls(St)) >= 2
  /\ LET s0 == [St EXCEPT !.setCall = [NoSet EXCEPT !.done = TRUE, !.arg = code, !.from = currentLang]]
         s1 == I18n_set(s0, code)
         rt == IF pc = "ready" /\ currentLang = "en" /\ code = "lo"
                 THEN [phase |-> 1, snap |-> <<BoundView(St)>>]
               ELSE IF roundTrip.phase = 1 /\ currentLang = "lo" /\ code = "en"
                 THEN [phase |-> 2, snap |-> roundTrip.snap]
               ELSE NoRoundTrip
     IN  \E next \in {[s1 EXCEPT !.setCall.changed = ([s1 EXCEPT !.setCall = NoSet] # [St EXCEPT !.setCall = NoSet]),
                                  !.roundTrip = rt,
                                  !.lastFetch = NoFetch,
                                  !.lastOp = NoOp,
                                  !.pushed = <<>>,
                                  !.lastSet = code]} : Install(next)

\* an operation on the projects page, recorded
Op(s, op, arg) == [Fresh(s) EXCEPT !.lastOp = [op |-> op, arg |-> arg]]

\* a click on a project card
ClickCard(i) ==
  /\ pc = "ready" /\ page = "projects"
  /\ i \in DOMAIN projects.list
  /\ ongoingGrid.kind = "cards" \/ completedGrid.kind = "cards"
  /\ \E next \in {App_showProjectDetail(Op(St, "click", projects.list[i].slug), projects.list[i])} :
       Install(next)

\* the close button of the detail section
CloseDetail ==
  /\ detail.open
  /\ \E next \in {App_hideProjectDetail(Op(St, "close", ""))} : Install(next)

\* Escape: every keydown handler that showProjectDetail has registered hides
\* the detail and removes itself
EscapeKey ==
  /\ escapeArmed
  /\ \E next \in {[App_hideProjectDetail(Op(St, "escape", "")) EXCEPT !.escapeArmed = FALSE]} :
       Install(next)

\* the timer set by loadProjects for the initial hash fires
DeepLinkTimer ==
  /\ timer # "none"
  /\ \E next \in {App_showProjectDetail([Op(St, "timer", timer) EXCEPT !.timer = "none"],
                                         projects.list[Find(projects.list, timer)])} :
       Install(next)

\* the hashes the user can navigate to: none, the slug of a record, or
\* something that is no slug
Hashes == {"", "bridge-a", "road-b", "main-content"}

\* back, forward or a fragment link: the browser changes the hash and fires
\* hashchange
HashChange(h) ==
  /\ page = "projects" /\ pc \in {"projects", "ready"}
  /\ h # hash
  /\ \E next \in {App_onHashChange([Op(St, "hashchange", h) EXCEPT !.hash = h])} : Install(next)

\* a click on a tab button
TabClick(index) ==
  /\ page = "projects" /\ pc \in {"projects", "ready"}
  /\ \E next \in {switchTab(Op(St, "tabclick", TabButtons[index]), TabButtons[index])} :
       Install(next)

\* a key pressed on a tab button
TabKey(index, key) ==
  /\ page = "projects" /\ pc \in {"projects", "ready"}
  /\ \E next \in {IF KeyTarget(index, key) = 0 THEN Op(St, "tabkey", key)
                    ELSE switchTab(Op(St, "tabkey", key), TabButtons[KeyTarget(index, key)])} :
       Install(next)

\* the user leaves the page and loads another one (or the same one again)
Reload(pg) ==
  /\ loads < MaxLoads
  /\ Install([ScriptsLoaded(pg, stored, loads + 1, lastSet)
                EXCEPT !.eh = [NoErrors EXCEPT !.flag = eh.flag, !.shown = eh.shown]])

Init ==
  \E pg \in Pages, sto \in {"none"} \cup Codes :
    Holds(ScriptsLoaded(pg, sto, 1, "none"))

Next ==
  \/ AppInit
  \/ \E r \in ReqIds : FetchFails(r)
  \/ \E r \in ReqIds : BackoffElapsed(r)
  \/ \E r \in ReqIds : \E body \in Bodies(r) : FetchSucceeds(r, body)
  \/ MotionInitDone
  \/ \E code \in Codes : SetLanguage(code)
  \/ \E i \in 1..Len(ProjectsFile) : ClickCard(i)
  \/ CloseDetail
  \/ \E pg \in Pages : Reload(pg)

Spec == Init /\ [][Next]_vars

\* ------------------------------------------------------------------------
\* Lookup specification: t() called on any pair of dictionaries
\* ------------------------------------------------------------------------
InitLookup ==
  \E en \in LookupDicts("en"), lo \in LookupDicts("lo"), lang \in Langs :
    Holds([ScriptsLoaded("contact", "none", 1, "none") EXCEPT
             !.translations = [l \in Langs |-> [has |-> TRUE, d |-> IF l = "en" THEN en ELSE lo]],
             !.currentLang = lang])

CallT(key) ==
  Install([St EXCEPT !.tCall = [called |-> TRUE, key |-> key,
                                result |-> t(translations, currentLang, key, MissingMarker)]])

NextLookup == \E key \in LookupKeys : CallT(key)

SpecLookup == InitLookup /\ [][NextLookup]_vars

\* ------------------------------------------------------------------------
\* Claims about the lookup
\* ------------------------------------------------------------------------
\* the value a dictionary file holds for a key, read off the tree directly
ValueAt(lang, key) ==
  IF key # <<>> /\ Split(key) \in TreePaths THEN translations[lang].d[Split(key)] ELSE Undefined

Present(v) == v.kind \notin {"undefined", "null"} /\ ~(v.kind = "string" /\ v.s = <<>>)

LastSegment(key) == Split(key)[Len(Split(key))]

IsPlaceholder(v) ==
  /\ v.kind = "string"
  /\ Len(v.s) > Len(MissingPrefix)
  /\ SubSeq(v.s, 1, Len(MissingPrefix)) = MissingPrefix
  /\ v.s[Len(v.s)] = "]"

\* the text between "[MISSING: " and "]"
PlaceholderText(v) == SubSeq(v.s, Len(MissingPrefix) + 1, Len(v.s) - 1)

\* C4: t(key) is the active-language value when that is present and neither
\* empty nor null, else the default-language value when that is present and
\* neither empty nor null, else the missing-key result.
C4_ResolveOrder ==
  tCall.called =>
    LET active  == ValueAt(currentLang, tCall.key)
        default == ValueAt("en", tCall.key)
    IN  IF Present(active) THEN tCall.result = active
        ELSE IF Present(default) THEN tCall.result = default
        ELSE IsPlaceholder(tCall.result)

\* C4 witness: en = {nav:{home:text}}, lo = {nav:{home:''}}, active language
\* lo, t('nav.home') has returned the en text
C4_Witness ==
  /\ tCall.called /\ tCall.key = KeyNavHome /\ currentLang = "lo"
  /\ ValueAt("lo", KeyNavHome) = Str(<<>>)
  /\ ValueAt("en", KeyNavHome) = Str(TextOf("en", SegHome))
  /\ tCall.result = Str(TextOf("en", SegHome))

KeyInDefault(key) == ValueAt("en", key) # Undefined

\* C5 as stated: for a key present in the default dictionary, t(key) is
\* neither undefined nor null and is either the translated value or a
\* placeholder string that contains the key's last path segment.
C5_AsStated ==
  (tCall.called /\ KeyInDefault(tCall.key)) =>
    /\ tCall.result.kind \notin {"undefined", "null"}
    /\ \/ (Present(tCall.result) /\ tCall.result \in {ValueAt(currentLang, tCall.key), ValueAt("en", tCall.key)})
       \/ (IsPlaceholder(tCall.result) /\ Includes(tCall.result.s, LastSegment(tCall.key)))

\* C5 amended: for a key present in the default dictionary, t(key) is
\* neither undefined nor null; it is the translated value (the non-empty
\* value stored for the key in the active or the default language), or the
\* string "[MISSING: X]" where X is the key's last
\* path segment with "_" and "-" replaced by spaces and the first letter of
\* every word upper-cased.
C5_Amended ==
  (tCall.called /\ KeyInDefault(tCall.key)) =>
    /\ tCall.result.kind \notin {"undefined", "null"}
    /\ \/ (Present(tCall.result) /\ tCall.result \in {ValueAt(currentLang, tCall.key), ValueAt("en", tCall.key)})
       \/ /\ IsPlaceholder(tCall.result)
          /\ LET x   == PlaceholderText(tCall.result)
                 seg == LastSegment(tCall.key)
             IN  /\ Len(x) = Len(seg)
                 /\ \A i \in DOMAIN seg :
                      IF seg[i] \in {"_", "-"} THEN x[i] = " "
                      ELSE IF i = 1 \/ seg[i-1] \in {"_", "-"} THEN x[i] = ToUpperCase(seg[i])
                      ELSE x[i] = seg[i]

\* C5 witness: a key present in the default dictionary with an empty value
\* in both languages has been resolved to the placeholder
C5_Witness ==
  /\ tCall.called /\ tCall.key = KeyMenuTitle
  /\ ValueAt("en", KeyMenuTitle) = Str(<<>>)
  /\ ValueAt(currentLang, KeyMenuTitle) \in {Null, Str(<<>>), Undefined}
  /\ IsPlaceholder(tCall.result)

\* ------------------------------------------------------------------------
\* Claims about the language switch
\* ------------------------------------------------------------------------
SetOrder == <<"persist", "bind", "lang", "hreflang">>

\* a call of set that named a language other than the current one
Switched == setCall.done /\ setCall.arg # setCall.from

\* C1: when set(L) is called with L different from the current language, the
\* preference is stored, then the binder runs, then the lang attribute and
\* the locale meta tags are written, then the hreflang annotations, and only
\* then are the renderers notified (at least once); each notified renderer
\* sees currentLang = L and the stored preference = L.
C1_SetOrder ==
  Switched =>
    /\ Len(setCall.log) > Len(SetOrder)
    /\ SubSeq(setCall.log, 1, Len(SetOrder)) = SetOrder
    /\ \A i \in (Len(SetOrder) + 1)..Len(setCall.log) : setCall.log[i] = "notify"
    /\ setCall.observed = {[lang |-> setCall.arg, currentLang |-> setCall.arg, stored |-> setCall.arg]}
    /\ stored = setCall.arg /\ htmlLang = setCall.arg /\ hreflang = "canonical"

\* C1 witness: a switch from en to lo on the projects page, after which the
\* event listener and the direct call have both notified the renderer
C1_Witness ==
  /\ Switched /\ setCall.from = "en" /\ setCall.arg = "lo"
  /\ page = "projects" /\ pc = "ready"
  /\ Len(setCall.log) = Len(SetOrder) + 2

\* C2: the active language is always en or lo, and a call of set with any
\* other code changes nothing and notifies nobody.
C2_OnlyRecognized ==
  /\ currentLang \in Langs
  /\ (setCall.done /\ setCall.arg \notin Langs) =>
        ~setCall.changed /\ setCall.log = <<>> /\ setCall.observed = {}

\* what every element with data-i18n shows when it shows the value resolved
\* for its key in the active language
ResolvedView(s) ==
  [bound |-> [e \in Elems |->
                IF ElemAttr(e) # ""
                THEN [s.bound[e] EXCEPT !.content = T(s, ElemKey(e))]
                ELSE [s.bound[e] EXCEPT !.text = T(s, ElemKey(e))]],
   ongoing |-> [i \in DOMAIN s.ongoingGrid.cards |-> T(s, KeyViewDetails)],
   completed |-> [i \in DOMAIN s.completedGrid.cards |-> T(s, KeyViewDetails)],
   detail |-> IF s.detail.slug # "none" THEN T(s, KeyScope) ELSE s.detail.scopeLabel]

\* C3: after a switch to a language L has completed, every element with
\* data-i18n shows the value resolved for its key in L, the buttons of the
\* re-rendered project cards included (stated for the case that both
\* dictionary files were loaded).
C3_AllBoundResolved ==
  (Switched /\ setCall.arg \in Langs /\ \A l \in Langs : loadResult[l] = "ok") =>
    BoundView(St) = ResolvedView(St)

\* ------------------------------------------------------------------------
\* Claims about the retry wrapper and the loading of data
\* ------------------------------------------------------------------------
\* C6: a request whose every attempt fails has made three calls of the
\* underlying fetch when the failure reaches the caller.
C6_ThreeAttempts ==
  (lastFetch.id # "none" /\ ~lastFetch.ok) => lastFetch.calls = 3

\* C7: a load whose request succeeded ends with the data of the file and the
\* rendering of that data, whether the first call succeeded or earlier calls
\* failed: the dictionary is the file, the binder has written the resolved
\* values, the project list is the file and the grids are its cards; the
\* retry counter of the request is clear again.
C7_RetryTransparent ==
  (lastFetch.ok /\ lastFetch.valid) =>
    /\ retryAttempts[lastFetch.id] = 0
    /\ lastFetch.id \in Langs =>
          translations[lastFetch.id] = [has |-> TRUE, d |-> FullDict(lastFetch.id)]
    /\ lastFetch.id = "lo" => BoundView(St).bound = ResolvedView(St).bound
    /\ lastFetch.id = "projects" =>
          /\ projects = [loaded |-> TRUE, list |-> ProjectsFile]
          /\ ongoingGrid = renderProjectGrid(St, HasStatus(ProjectsFile, "ongoing"))
          /\ completedGrid = renderProjectGrid(St, HasStatus(ProjectsFile, "completed"))

\* C7 witness: the project file arrived with the third call, after two
\* failures, and the cards are rendered
C7_Witness ==
  /\ lastFetch = [id |-> "projects", calls |-> 3, ok |-> TRUE, valid |-> TRUE]
  /\ ongoingGrid.kind = "cards" /\ completedGrid.kind = "cards"

FreshCopy(entry) == entry.kind = "entry" /\ entry.age < CacheMaxAgeMs

\* C8: when the load of one dictionary has failed (fetch or parse), the
\* dictionary of that language is the built-in one, with the top-level
\* entries of a fresh cached copy laid over it; a dictionary whose load
\* succeeded is the file, whatever happened to the other; and once both
\* loads have settled init has applied the translations and set up the
\* switcher.
C8_FailSoft ==
  /\ \A lang \in Langs :
        /\ loadResult[lang] = "failed" =>
              /\ translations[lang].has
              /\ \A p \in TreePaths :
                    translations[lang].d[p] =
                      IF FreshCopy(cacheRead[lang]) /\ cacheRead[lang].d[<<p[1]>>] # Undefined
                      THEN cacheRead[lang].d[p]
                      ELSE getFallbackTranslations(lang)[p]
        /\ loadResult[lang] = "ok" =>
              translations[lang] = [has |-> TRUE, d |-> FullDict(lang)]
  /\ loadResult["lo"] # "pending" =>
        /\ loadResult["en"] # "pending"
        /\ pc \notin {"scripts", "i18n_en", "i18n_lo"}
        /\ switcher.ready
        /\ BoundView(St).bound = ResolvedView(St).bound
        /\ htmlLang = currentLang

\* C8 witness: the English load failed and found a fresh cached copy, the
\* Lao load succeeded, and init has gone on
C8_Witness ==
  /\ loadResult = [l \in Langs |-> IF l = "en" THEN "failed" ELSE "ok"]
  /\ FreshCopy(cacheRead["en"])
  /\ pc = "motion" /\ switcher.ready

\* the language init must start in: the last language handed to set, or
\* else what storage held, or else the default
Preferred ==
  IF lastSet # "none" THEN lastSet ELSE IF stored # "none" THEN stored ELSE "en"

\* C9: after init has read the preference (and before the switcher exists)
\* the active language is the one last handed to set in an earlier page
\* load, and en when nothing is stored; the stored value changes only in a
\* call of set, to its argument, and the active language changes only at
\* init, in a call of set, or when the page is left.
C9_PreferenceKept ==
  /\ [](pc \in {"i18n_en", "i18n_lo"} =>
          /\ currentLang = Preferred
          /\ stored = "none" => currentLang = "en")
  /\ [][ /\ stored' # stored => setCall'.done /\ setCall'.arg = stored'
         /\ currentLang' # currentLang =>
               \/ pc = "scripts" /\ currentLang' = Preferred
               \/ pc' = "scripts"
               \/ setCall'.done /\ setCall'.arg = currentLang' ]_vars

\* C9 witness: the second page load, on another page, starts in lo after
\* set('lo') in the first
C9_Witness ==
  /\ loads = 2 /\ pc = "i18n_en" /\ page = "contact"
  /\ lastSet = "lo" /\ currentLang = "lo"

\* C10: after the switches en -> lo -> en on an initialized page, every
\* element with data-i18n shows what it showed before the two switches.
C10_RoundTrip ==
  roundTrip.phase = 2 => <<BoundView(St)>> = roundTrip.snap

\* ------------------------------------------------------------------------
\* Render specification: renderProjectTabs on any project collection
\* ------------------------------------------------------------------------
MaxProjects == 3

Slugs == {"bridge-a", "road-b", "dam-c", "tower-d"}
Statuses == {"ongoing", "completed"}

\* the collections projects.json can hold: up to MaxProjects records with
\* distinct slugs, each ongoing or completed
Collections ==
  { c \in UNION { [1..n -> [slug : Slugs, status : Statuses, summary_i18n_key : {KeySummary},
                             featured : BOOLEAN]] :
                    n \in 0..MaxProjects } :
      \A i, j \in DOMAIN c : c[i].slug = c[j].slug => i = j }

\* loadProjects has received the collection and is about to render it
InitRender ==
  \E c \in Collections, lang \in Langs :
    Holds([ScriptsLoaded("projects", "none", 1, "none") EXCEPT
             !.translations = [l \in Langs |-> [has |-> TRUE, d |-> FullDict(l)]],
             !.currentLang = lang,
             !.switcher = [ready |-> TRUE, active |-> lang],
             !.listening = TRUE,
             !.ongoingGrid = LoadingGrid, !.completedGrid = LoadingGrid,
             !.projects = [loaded |-> TRUE, list |-> c],
             !.pc = "projects"])

RenderTabs ==
  /\ pc = "projects"
  /\ \E next \in {[App_renderProjectTabs(St) EXCEPT !.pc = "ready"]} : Install(next)

NextRender == RenderTabs

SpecRender == InitRender /\ [][NextRender]_vars

\* ------------------------------------------------------------------------
\* Claims about the rendering of the project collection
\* ------------------------------------------------------------------------
GridOf(status) == IF status = "ongoing" THEN ongoingGrid ELSE completedGrid

\* the number of cards a grid holds for a slug
CardsFor(grid, slug) == Cardinality({i \in DOMAIN grid.cards : grid.cards[i].slug = slug})

RECURSIVE SlugsWith(_, _)
SlugsWith(list, status) ==
  IF list = <<>> THEN <<>>
  ELSE (IF Head(list).status = status THEN <<Head(list).slug>> ELSE <<>>)
       \o SlugsWith(Tail(list), status)

CardSlugs(grid) == [i \in DOMAIN grid.cards |-> grid.cards[i].slug]

\* C12: each grid holds one card per record of its status, in the order of
\* the collection, and nothing else; a grid without a matching record shows
\* the empty state; bridge-a (ongoing) and road-b (completed) give exactly
\* the card road-b in the completed grid.
C12_GridPerTab ==
  pc = "ready" =>
    /\ \A status \in Statuses :
          /\ CardSlugs(GridOf(status)) = SlugsWith(projects.list, status)
          /\ GridOf(status).kind =
                IF SlugsWith(projects.list, status) = <<>> THEN "empty" ELSE "cards"
    /\ projects.list = ProjectsFile => CardSlugs(completedGrid) = <<"road-b">>

\* C12 witness: the collection of the example is rendered
C12_Witness ==
  /\ pc = "ready" /\ projects.list = ProjectsFile
  /\ completedGrid.kind = "cards" /\ ongoingGrid.kind = "cards"

\* ------------------------------------------------------------------------
\* Projects specification: the projects page from the end of I18n.init on,
\* loaded with any hash, with both dictionaries loaded
\* ------------------------------------------------------------------------
InitProjects ==
  \E h \in Hashes :
    \E start \in
        {I18n_init_finish(
           [I18n_init_start(Motion_init(ScriptsLoaded("projects", "none", 1, "none"))) EXCEPT
              !.hash = h,
              !.translations = [l \in Langs |-> [has |-> TRUE, d |-> FullDict(l)]],
              !.loadResult = [l \in Langs |-> "ok"]])} :
      Holds(start)

NextProjects ==
  \/ MotionInitDone
  \/ \E r \in ReqIds : FetchFails(r)
  \/ \E r \in ReqIds : BackoffElapsed(r)
  \/ \E r \in ReqIds : \E body \in Bodies(r) : FetchSucceeds(r, body)
  \/ DeepLinkTimer
  \/ \E i \in 1..Len(ProjectsFile) : ClickCard(i)
  \/ CloseDetail
  \/ EscapeKey
  \/ \E h \in Hashes : HashChange(h)
  \/ \E index \in DOMAIN TabButtons : TabClick(index)
  \/ \E index \in DOMAIN TabButtons, key \in TabKeys : TabKey(index, key)

SpecProjects == InitProjects /\ [][NextProjects]_vars

\* the timer of setTimeout fires when its delay has passed
SpecProjectsFair == SpecProjects /\ WF_vars(DeepLinkTimer)

\* ------------------------------------------------------------------------
\* Claims about the projects page
\* ------------------------------------------------------------------------
\* a record of the list has the slug
IsSlugOf(list, slug) == \E i \in DOMAIN list : list[i].slug = slug

\* the detail view is expanded for the slug and the hash names it
ShownFor(slug) == detail.open /\ detail.slug = slug /\ hash = slug

\* C13: the detail view is never open before the collection has loaded; the
\* initial hash is recorded when the load starts; when the load succeeds
\* with an initial hash that is the slug of a record, a timer is set for
\* that record and the detail view eventually opens for it; with an initial
\* hash that is no slug, no timer is set, the load leaves the detail view
\* closed and the page becomes ready.
C13_DeepLink ==
  /\ [](detail.open => projects.loaded /\ pc = "ready")
  /\ [](timer # "none" => projects.loaded /\ timer = initialHash /\ IsSlugOf(projects.list, timer))
  /\ [][pc = "motion" /\ pc' = "projects" => initialHash' = hash]_vars
  /\ []((lastFetch.id = "projects" /\ lastFetch.ok /\ lastFetch.valid) =>
          /\ pc = "ready"
          /\ IF IsSlugOf(projects.list, initialHash)
             THEN timer = initialHash
             ELSE timer = "none" /\ ~detail.open)
  /\ [](~IsSlugOf(ProjectsFile, initialHash) => timer = "none" /\ lastOp.op # "timer")
  /\ (timer # "none") ~> (lastOp = [op |-> "timer", arg |-> initialHash] /\ ShownFor(initialHash))

\* C13 witness: the page was loaded with #bridge-a and the timer has opened
\* the detail of bridge-a
C13_Witness ==
  /\ initialHash = "bridge-a"
  /\ lastOp = [op |-> "timer", arg |-> "bridge-a"]
  /\ ShownFor("bridge-a")

\* after the step the detail view is expanded for the slug and the hash names it
ShownNext(slug) == detail'.open /\ detail'.slug = slug /\ hash' = slug

\* the page is not loaded again
NoReload == loads' = loads /\ pc' = pc /\ projects' = projects /\ page' = page

\* C14: showing the detail of a record (card click, deep-link timer) leaves
\* the detail view expanded for it and the hash equal to its slug, without
\* a page load; hiding it (close button, Escape) leaves the view collapsed
\* and the hash empty; a hashchange to the empty hash hides, to the slug of
\* a loaded record shows that record, and to anything else leaves the
\* detail view and the hash the browser has set as they are.
C14_OpenClose ==
  /\ [][\A i \in DOMAIN ProjectsFile :
          ClickCard(i) => ShownNext(projects.list[i].slug) /\ NoReload]_vars
  /\ [][DeepLinkTimer => ShownNext(timer) /\ NoReload]_vars
  /\ [][(CloseDetail \/ EscapeKey) => ~detail'.open /\ hash' = "" /\ NoReload]_vars
  /\ [][\A h \in Hashes :
          HashChange(h) =>
            /\ NoReload
            /\ IF h = "" THEN ~detail'.open /\ hash' = ""
               ELSE IF projects.loaded /\ IsSlugOf(projects.list, h) THEN ShownNext(h)
               ELSE detail' = detail /\ hash' = h]_vars

\* C14 witness: a hashchange to #road-b has opened the detail of road-b
C14_Witness ==
  /\ lastOp = [op |-> "hashchange", arg |-> "road-b"]
  /\ ShownFor("road-b")

\* C15: on the projects page, whenever the detail view is expanded the hash
\* is the slug of the record it shows.
C15_HashMirrorsDetail ==
  (page = "projects" /\ detail.open) => hash = detail.slug

TabOp ==
  \/ \E index \in DOMAIN TabButtons : TabClick(index)
  \/ \E index \in DOMAIN TabButtons, key \in TabKeys : TabKey(index, key)

DetailOp ==
  \/ \E i \in DOMAIN ProjectsFile : ClickCard(i)
  \/ CloseDetail
  \/ EscapeKey
  \/ DeepLinkTimer
  \/ \E h \in Hashes : HashChange(h)

\* C16: a click or key on a tab button changes neither the detail view nor
\* the hash nor a pending deep-link timer, and showing or hiding the detail
\* (by any of its triggers) leaves the active tab as it is.
C16_TabDetailIndependent ==
  /\ [][TabOp => detail' = detail /\ hash' = hash /\ timer' = timer]_vars
  /\ [][DetailOp => tab' = tab]_vars

\* C16 witness: the detail was closed while the second tab was active, and
\* that tab is still active
C16_Witness ==
  /\ lastOp.op = "close" /\ detail.slug # "none" /\ ~detail.open
  /\ tab = "completed"

\* C17: when the load of the collection has failed (every attempt rejected,
\* or a body that is not JSON), loadProjects has completed, the collection
\* is empty, both grids show the error message, no detail view is open and
\* no timer is set; with the empty collection the detail view stays closed.
C17_LoadFailure ==
  /\ (lastFetch.id = "projects" /\ ~(lastFetch.ok /\ lastFetch.valid)) =>
        /\ pc = "ready"
        /\ projects = [loaded |-> TRUE, list |-> <<>>]
        /\ ongoingGrid = ErrorGrid /\ completedGrid = ErrorGrid
        /\ ~detail.open /\ timer = "none"
  /\ (projects.loaded /\ projects.list = <<>>) => ~detail.open /\ timer = "none"

\* C17 witness: the page was loaded with #bridge-a and the request has
\* failed for good
C17_Witness ==
  /\ lastFetch.id = "projects" /\ ~lastFetch.ok
  /\ initialHash = "bridge-a" /\ hash = "bridge-a"
  /\ ongoingGrid = ErrorGrid

\* ------------------------------------------------------------------------
\* Motion specification: the projects page from the end of I18n.init on,
\* with any combination of libraries and preference
\* ------------------------------------------------------------------------
\* ErrorHandler.handleScriptError for a script whose URL contains "gsap"
\* (the plugin is served from .../gsap/<version>/ScrollTrigger.min.js)
ErrorHandler_handleScriptError(s) ==
  [s EXCEPT !.bodyClass = @ \cup {"no-gsap", "no-animations"}]

InitMotion ==
  \E g \in BOOLEAN, st \in {"present", "missing", "failed"}, pref \in BOOLEAN, th \in BOOLEAN :
    \E scripts \in
        {[ScriptsLoaded("projects", "none", 1, "none") EXCEPT
            !.gsap = g, !.scrollTrigger = st, !.prefReduced = pref, !.motionThrows = th]} :
      \E start \in
          {I18n_init_finish(
             [I18n_init_start(Motion_init(IF st = "failed"
                                          THEN ErrorHandler_handleScriptError(scripts)
                                          ELSE scripts)) EXCEPT
                !.translations = [l \in Langs |-> [has |-> TRUE, d |-> FullDict(l)]],
                !.loadResult = [l \in Langs |-> "ok"]])} :
        Holds(start)

NextMotion ==
  \/ MotionInitDone
  \/ \E r \in ReqIds : FetchFails(r)
  \/ \E r \in ReqIds : BackoffElapsed(r)
  \/ \E r \in ReqIds : \E body \in Bodies(r) : FetchSucceeds(r, body)
  \/ \E i \in 1..Len(ProjectsFile) : ClickCard(i)
  \/ CloseDetail
  \/ PrefChange

SpecMotion == InitMotion /\ [][NextMotion]_vars

\* ------------------------------------------------------------------------
\* Claims about the Motion controller
\* ------------------------------------------------------------------------
\* no scroll trigger is registered by any component
NoneRegistered == \A o \in TriggerOwners : triggers[o] = "none"

\* C18: when init has run with the library absent, or with the reduced-motion
\* preference set (and not changed since), the no-gsap marker is on the
\* body, no scroll trigger is registered by Motion or by a detail view
\* opened since, and no exception has escaped.
C18_NoMotion ==
  (motion.inited /\ (~gsap \/ (prefReduced /\ motion.toggles = 0))) =>
    /\ "no-gsap" \in bodyClass
    /\ NoneRegistered
    /\ ~motion.errors

\* what a fresh init under the current preference registers
FreshInit ==
  Motion_init([St EXCEPT !.motion = NoMotion, !.triggers = NoTriggers, !.bodyClass = {}])

\* C19: after any changes of the preference the scroll-triggered animations
\* of Motion are registered and enabled exactly when a fresh init under the
\* current preference would register them.
C19_LiveToggle ==
  motion.inited =>
    ((triggers["reveal"] = "enabled") <=> (FreshInit.triggers["reveal"] = "enabled"))

\* C20: whenever the init awaited by App.init has finished without
\* registering scroll-triggered reveals, the no-gsap marker is on the body.
C20_DegradesToCss ==
  (motion.inited /\ pc \in {"projects", "ready"} /\ motion.toggles = 0
     /\ triggers["reveal"] = "none") =>
    "no-gsap" \in bodyClass

\* ------------------------------------------------------------------------
\* Claims about the start-up order
\* ------------------------------------------------------------------------
\* C21: once the page is ready and Motion has attached its scroll-triggered
\* reveals, every reveal element of the document, the cards rendered by the
\* page-specific initializer included, is among the elements the reveals
\* were attached to.
C21_RevealsAfterRender ==
  (pc = "ready" /\ triggers["reveal"] = "enabled") =>
    RevealElements(St) \subseteq motion.targets

\* ------------------------------------------------------------------------
\* Claims about the dictionary cache
\* ------------------------------------------------------------------------
\* C22 (as stated): when the fetch of a dictionary has just been answered,
\* the cache entry of that language has not been read.
C22_AsStated ==
  \A lang \in Langs : (lastFetch.id = lang /\ lastFetch.ok) => cacheRead[lang] = Unread

\* C22 (amended): the cache entry of a language is read only when the load
\* of that language has failed, by a failed fetch or by a body that does
\* not parse; a dictionary whose load succeeded is the file, and after a
\* failed load that found no entry, or one that is 24 hours old or older,
\* it is the built-in dictionary alone.
C22_Amended ==
  \A lang \in Langs :
    /\ cacheRead[lang] # Unread => loadResult[lang] = "failed"
    /\ (lastFetch.id = lang /\ lastFetch.ok /\ lastFetch.valid) =>
          /\ loadResult[lang] = "ok" /\ cacheRead[lang] = Unread
          /\ translations[lang].d = FullDict(lang)
    /\ (loadResult[lang] = "failed" /\ cacheRead[lang].age >= CacheMaxAgeMs) =>
          translations[lang].d = getFallbackTranslations(lang)
    /\ (loadResult[lang] = "failed" /\ cacheRead[lang].kind = "none") =>
          translations[lang].d = getFallbackTranslations(lang)

\* C22 witness: the English load failed and the entry it read was exactly
\* 24 hours old
C22_Witness ==
  /\ loadResult["en"] = "failed"
  /\ cacheRead["en"].kind = "entry" /\ cacheRead["en"].age = CacheMaxAgeMs
  /\ translations["en"].d = getFallbackTranslations("en")

\* ------------------------------------------------------------------------
\* ErrorHandler: uncaught errors and the banner
\* ------------------------------------------------------------------------
criticalPatterns ==
  { <<"C","a","n","n","o","t"," ","r","e","a","d"," ","p","r","o","p","e","r","t","y">>,
    <<"C","a","n","n","o","t"," ","r","e","a","d"," ","p","r","o","p","e","r","t","i","e","s">>,
    <<"i","s"," ","n","o","t"," ","a"," ","f","u","n","c","t","i","o","n">>,
    <<"i","s"," ","n","o","t"," ","d","e","f","i","n","e","d">> }

\* messages of the errors that reach the handlers of window
ErrorMessages ==
  { <<"x"," ","i","s"," ","n","o","t"," ","d","e","f","i","n","e","d">>,
    <<"g","s","a","p"," ","i","s"," ","n","o","t"," ","d","e","f","i","n","e","d">>,
    <<"Q","u","o","t","a"," ","e","x","c","e","e","d","e","d">> }
ErrorTypes == {"javascript", "promise"}

isCriticalError(message) == \E pattern \in criticalPatterns : Includes(message, pattern)

\* showUserErrorMessage: once per session a banner is inserted and a timer
\* of 10 seconds is started
ErrorHandler_showUserErrorMessage(s) ==
  IF s.eh.flag THEN s
  ELSE [s EXCEPT !.eh.banner = "shown", !.eh.timer = TRUE,
                 !.eh.shown = @ + 1, !.eh.flag = TRUE]

ErrorHandler_handleJavaScriptError(s, message) ==
  IF Includes(message, <<"g","s","a","p">>) \/ Includes(message, <<"S","c","r","o","l","l","T","r","i","g","g","e","r">>)
  THEN [s EXCEPT !.bodyClass = @ \cup {"no-gsap", "no-animations"}]
  ELSE s

ErrorHandler_handleError(s, type, message) ==
  LET s1 == [s EXCEPT !.eh.errors = Append(@, [type |-> type, message |-> message])]
      s2 == IF type = "javascript" THEN ErrorHandler_handleJavaScriptError(s1, message) ELSE s1
  IN  IF isCriticalError(message) THEN ErrorHandler_showUserErrorMessage(s2) ELSE s2

MaxErrors == 2

\* an 'error' or 'unhandledrejection' event reaches window
ErrorEvent(type, message) ==
  /\ Len(eh.errors) < MaxErrors
  /\ \E next \in {ErrorHandler_handleError(Fresh(St), type, message)} : Install(next)

\* the 10 seconds have passed
BannerTimeout ==
  /\ eh.timer
  /\ Install([Fresh(St) EXCEPT !.eh.timer = FALSE,
                               !.eh.banner = IF @ = "shown" THEN "removed" ELSE @])

\* a click on the close button of the banner
BannerClose ==
  /\ eh.banner = "shown"
  /\ Install([Fresh(St) EXCEPT !.eh.banner = "removed"])

InitErrors == \E pg \in Pages : Holds(ScriptsLoaded(pg, "none", 1, "none"))

NextErrors ==
  \/ \E type \in ErrorTypes, message \in ErrorMessages : ErrorEvent(type, message)
  \/ BannerTimeout
  \/ BannerClose
  \/ \E pg \in Pages : Reload(pg)

SpecErrors == InitErrors /\ [][NextErrors]_vars

\* C23: once an uncaught error or an unhandled rejection has been recorded
\* by the top-level handler, the banner has been shown in this session.
C23_FirstErrorShowsBanner ==
  Len(eh.errors) >= 1 => (eh.flag /\ eh.shown = 1)

\* ------------------------------------------------------------------------
\* Retry specification: the home page from the end of I18n.init on; the
\* featured projects are loaded at start-up and twice at each switch of
\* the language, all with the same retry key
\* ------------------------------------------------------------------------
InitHome ==
  \E sto \in {"none", "lo"} :
    \E start \in
        {I18n_init_finish(
           [I18n_init_start(Motion_init(ScriptsLoaded("home", sto, 1, "none"))) EXCEPT
              !.translations = [l \in Langs |-> [has |-> TRUE, d |-> FullDict(l)]],
              !.loadResult = [l \in Langs |-> "ok"]])} :
      Holds(start)

\* a switch of the language while no load of the featured projects is in
\* progress
SwitchWhenIdle(code) ==
  /\ Cardinality(FreeCalls(St)) = Len(FeaturedCalls)
  /\ SetLanguage(code)

\* window.errorHandler.clearErrors()
ClearErrors ==
  \E next \in {[Fresh(St) EXCEPT !.eh.errors = <<>>,
                                 !.retryAttempts = [k \in RetryKeys |-> 0]]} : Install(next)

NextRetry ==
  \/ MotionInitDone
  \/ \E code \in Langs : SwitchWhenIdle(code)
  \/ \E r \in CallIds : FetchFails(r)
  \/ \E r \in CallIds : BackoffElapsed(r)
  \/ \E r \in CallIds : \E body \in Bodies(r) : FetchSucceeds(r, body)
  \/ ClearErrors

SpecRetry == InitHome /\ [][NextRetry]_vars

\* C24: a call of fetchWithRetry for the featured projects has made at most
\* maxRetries + 1 calls of the underlying fetch, and when it throws it has
\* made exactly that many, whatever the other calls for the same URL did.
C24_BudgetPerCall ==
  /\ \A i \in DOMAIN FeaturedCalls : reqs[FeaturedCalls[i]].calls <= maxRetries + 1
  /\ (lastFetch.id \in CallIds \ ReqIds /\ ~lastFetch.ok) =>
        lastFetch.calls = maxRetries + 1

\* ------------------------------------------------------------------------
\* Cache specification: a first page load in which every file is fetched
\* and parsed, followed by page loads in which anything can happen
\* ------------------------------------------------------------------------
FirstLoadSucceeds(r) ==
  /\ loads = 1
  /\ \E body \in {b \in Bodies(r) : b.valid} : FetchSucceeds(r, body)

LaterLoadFails(r) ==
  /\ loads > 1
  /\ FetchFails(r)

LaterLoadSucceeds(r) ==
  /\ loads > 1
  /\ \E body \in Bodies(r) : FetchSucceeds(r, body)

\* the page is left when both dictionaries of this page load are the files
ReloadAfterLoad(pg) ==
  /\ \A lang \in Langs : loadResult[lang] = "ok"
  /\ Reload(pg)

NextCache ==
  \/ AppInit
  \/ \E r \in ReqIds : FirstLoadSucceeds(r)
  \/ \E r \in ReqIds : LaterLoadFails(r)
  \/ \E r \in ReqIds : BackoffElapsed(r)
  \/ \E r \in ReqIds : LaterLoadSucceeds(r)
  \/ MotionInitDone
  \/ \E pg \in Pages : ReloadAfterLoad(pg)

SpecCache == Init /\ [][NextCache]_vars

\* C25: when the fetch of a dictionary has just failed in a page load that
\* follows one in which that dictionary was fetched, the dictionary in use
\* is the full file of the earlier load.
C25_CacheWritten ==
  \A lang \in Langs :
    (loads > 1 /\ lastFetch.id = lang /\ ~lastFetch.ok) =>
      translations[lang].d = FullDict(lang)

\* ------------------------------------------------------------------------
\* Claims about the notification of a language switch
\* ------------------------------------------------------------------------
\* C26: a call of I18n.set that changed the language has run
\* App.handleLanguageChange exactly once.
C26_NotifiedOnce ==
  (setCall.done /\ setCall.arg # setCall.from) =>
    Cardinality({i \in DOMAIN setCall.log : setCall.log[i] = "notify"}) = 1

\* ------------------------------------------------------------------------
\* Claims about the Escape handler and the session history
\* ------------------------------------------------------------------------
\* C27: while the detail view is closed no keydown handler of the detail
\* view is registered on the document.
C27_NoHandlerWhenClosed ==
  (page = "projects" /\ ~detail.open) => ~escapeArmed

\* C28: the handler of a hashchange event on the projects page has pushed
\* no entry onto the session history.
C28_HashChangeKeepsHistory ==
  lastOp.op = "hashchange" => pushed = <<>>

\* ------------------------------------------------------------------------
\* Claims about repeated initialization
\* ------------------------------------------------------------------------
\* C29: once App.init has gone past Motion.init, one change listener of the
\* reduced-motion preference is registered and each reveal element that
\* has a scroll-triggered animation has one.
C29_InitOnce ==
  pc \in {"projects", "ready"} =>
    /\ motion.listeners = 1
    /\ triggers["reveal"] # "none" => motion.perElement = 1

\* ------------------------------------------------------------------------
\* Featured specification: the home page from the end of I18n.init on,
\* with language switches at any time and every load succeeding
\* ------------------------------------------------------------------------
FeaturedLoadSucceeds(i) ==
  /\ page = "home"
  /\ \E body \in {b \in Bodies(FeaturedCalls[i]) : b.valid} : FetchSucceeds(FeaturedCalls[i], body)

NextFeatured ==
  \/ MotionInitDone
  \/ \E code \in Codes : SetLanguage(code)
  \/ \E i \in DOMAIN FeaturedCalls : FeaturedLoadSucceeds(i)

SpecFeatured == InitHome /\ [][NextFeatured]_vars

\* the cards of the featured projects in the active language
FeaturedCards ==
  LET featuredProjects == SelectSeq(ProjectsFile, LAMBDA p : p.featured)
  IN  [i \in DOMAIN featuredProjects |->
         [slug |-> featuredProjects[i].slug,
          summary |-> ToText(t(translations, currentLang,
                               featuredProjects[i].summary_i18n_key, Str(NoDescriptionText)))]]

\* C30: when App.init has finished and no load of the featured projects is
\* outstanding, the grid of the home page holds one card for each featured
\* project, in file order, with the summary in the active language.
C30_FeaturedSettled ==
  (pc = "ready" /\ FreeCalls(St) = DOMAIN FeaturedCalls) =>
    featuredGrid = [kind |-> "cards", cards |-> FeaturedCards]

\* C30 witness: four loads were outstanding at once (start-up or an earlier
\* switch, and two switches in a row), the one started last has just ended
\* as the last of them, and the language is not the one of the markup
C30_Witness ==
  /\ pc = "ready" /\ FreeCalls(St) = DOMAIN FeaturedCalls
  /\ lastFetch.id = FeaturedCalls[4] /\ lastFetch.ok
  /\ currentLang = "lo"
  /\ featuredGrid.kind = "cards" /\ Len(featuredGrid.cards) = 1

====
